---- MODULE Spec2Model ----
(***************************************************************************)
(* Model of the text-region compositing engine of manga_detection:         *)
(* src/src/inpainting.py (class TextInpainter) and its callers in          *)
(* src/app.py.                                                             *)
(*                                                                         *)
(* Strings are sequences of one-character strings, so that strip(),        *)
(* split(), join() and the f-string cache key are computed, not assumed.   *)
(* A raster is a function from pixel coordinates <<x, y>> to a colour.     *)
(* Pillow's font metrics and text renderer are modelled by a fixed-pitch   *)
(* font: every character of a font of size s advances s \div 2 columns and *)
(* its ink covers rows s \div 4 .. s-1 below the draw origin.              *)
(***************************************************************************)
EXTENDS Integers, Sequences, FiniteSets, TLC

(***************************************************************************)
(* Bounds of the model.                                                    *)
(***************************************************************************)
\* the raster is ImgW columns by ImgH rows
ImgW == 21
ImgH == 11
\* a session has at most MaxRounds rounds; a round is the calls made on one
\* version of the region list, and an edit after a call starts the next round
MaxRounds == 2
\* the font cache holds at most MaxCached handles in the sessions of direct
\* font lookups
MaxCached == 3

(***************************************************************************)
(* Python helpers.                                                         *)
(***************************************************************************)
Min2(a, b) == IF a <= b THEN a ELSE b

Max2(a, b) == IF a >= b THEN a ELSE b

\* str.isspace() of one character
IsSpace(c) == c \in {" ", "\n", "\t"}

\* str.lower() of one character (the letters the family names use)
LowerChar(c) ==
  CASE c = "A" -> "a"
    [] c = "T" -> "t"
    [] OTHER -> c

\* str.lower()
Lower(s) == [i \in 1..Len(s) |-> LowerChar(s[i])]

RECURSIVE LStrip(_)
\* str.lstrip()
LStrip(s) == IF s # <<>> /\ IsSpace(Head(s)) THEN LStrip(Tail(s)) ELSE s

RECURSIVE RStrip(_)
\* str.rstrip()
RStrip(s) ==
  IF s # <<>> /\ IsSpace(s[Len(s)]) THEN RStrip(SubSeq(s, 1, Len(s) - 1)) ELSE s

\* str.strip()
Strip(s) == RStrip(LStrip(s))

RECURSIVE SplitOn(_, _, _)
\* the maximal runs of characters of s that are not in seps, in order;
\* cur is the run being read.  keepEmpty: str.split(sep) keeps empty runs,
\* str.split() drops them.
SplitOn(s, cur, cfg) ==
  IF s = <<>>
    THEN IF cur = <<>> /\ ~cfg.keepEmpty THEN <<>> ELSE <<cur>>
    ELSE IF Head(s) \in cfg.seps
           THEN (IF cur = <<>> /\ ~cfg.keepEmpty THEN <<>> ELSE <<cur>>)
                  \o SplitOn(Tail(s), <<>>, cfg)
           ELSE SplitOn(Tail(s), Append(cur, Head(s)), cfg)

\* str.split(' '): the runs between single spaces, empty ones kept
SplitSpaces(s) == SplitOn(s, <<>>, [seps |-> {" "}, keepEmpty |-> TRUE])

\* str.split(): the whitespace-separated words
Split(s) == SplitOn(s, <<>>, [seps |-> {" ", "\n", "\t"}, keepEmpty |-> FALSE])

\* str.split('\n'): the lines, empty ones kept ("".split('\n') is [""])
SplitLines(s) == SplitOn(s, <<>>, [seps |-> {"\n"}, keepEmpty |-> TRUE])

RECURSIVE Join(_, _)
\* sep.join(parts)
Join(sep, parts) ==
  IF parts = <<>> THEN <<>>
  ELSE IF Len(parts) = 1 THEN parts[1]
  ELSE parts[1] \o sep \o Join(sep, Tail(parts))

RECURSIVE NatDigits(_)
\* the decimal digits of a natural number
NatDigits(n) ==
  LET d == <<"0", "1", "2", "3", "4", "5", "6", "7", "8", "9">>[(n % 10) + 1]
  IN IF n < 10 THEN <<d>> ELSE Append(NatDigits(n \div 10), d)

\* str(n) of an integer
IntStr(n) == IF n < 0 THEN <<"-">> \o NatDigits(0 - n) ELSE NatDigits(n)

(***************************************************************************)
(* Fonts: the platform (which font files exist, how the installed Pillow   *)
(* treats a size <= 0) and the handles ImageFont returns.                  *)
(***************************************************************************)
\* font_paths of _get_font, in probing order
ArialFontPaths == <<"/System/Library/Fonts/Arial.ttf", "C:/Windows/Fonts/arial.ttf",
                    "/usr/share/fonts/truetype/liberation/LiberationSans-Regular.ttf",
                    "/usr/share/fonts/truetype/dejavu/DejaVuSans.ttf">>

Arial == <<"a", "r", "i", "a", "l">>

ArialUpper == <<"A", "r", "i", "a", "l">>

Times == <<"t", "i", "m", "e", "s">>

\* a platform with the Linux fonts of the search list and a recent Pillow,
\* whose FreeTypeFont rejects a size <= 0 with ValueError
LinuxFonts ==
  [existing |-> {ArialFontPaths[3], ArialFontPaths[4]}, loadable |-> {}, strictSize |-> TRUE]

\* a platform with none of the files of the search list, where
\* ImageFont.truetype() finds "times" by name, and an older Pillow, where a
\* size <= 0 fails inside FreeType with OSError
OtherFonts == [existing |-> {}, loadable |-> {Times}, strictSize |-> FALSE]

\* the pixel size of the bitmap font ImageFont.load_default() returns,
\* whatever size was asked for
DefaultFontPx == 10

\* ImageFont.load_default()
LoadDefault == [kind |-> "default", file |-> "", size |-> DefaultFontPx]

\* ImageFont.truetype(file, size): a handle, or the exception it raises
TrueType(env, file, size, found) ==
  IF size <= 0
    THEN [exc |-> IF env.strictSize THEN "ValueError" ELSE "OSError", font |-> LoadDefault]
    ELSE IF found
           THEN [exc |-> "none", font |-> [kind |-> "truetype", file |-> file, size |-> size]]
           ELSE [exc |-> "OSError", font |-> LoadDefault]

\* a cache key that leaves the size out
CacheKeyFamily(font_family, font_size) == font_family \o <<"_">>

\* cache_key = f"{font_family}_{font_size}"
CacheKey(font_family, font_size) == font_family \o <<"_">> \o IntStr(font_size)

\* the body of the try block of _get_font: the font it loads, or the exception
LoadFont(env, font_family, font_size) ==
  IF Lower(font_family) = Arial
    THEN LET hits == {i \in 1..Len(ArialFontPaths) : ArialFontPaths[i] \in env.existing}
         IN IF hits = {}
              THEN [exc |-> "none", font |-> LoadDefault]
              ELSE LET first == CHOOSE i \in hits : \A j \in hits : i <= j
                   IN TrueType(env, ArialFontPaths[first], font_size, TRUE)
    ELSE TrueType(env, font_family, font_size, font_family \in env.loadable)

\* _get_font with a cache that hands back a handle other than the one it was
\* given: a hit returns the default font
GetFontStale(env, cache, font_family, font_size) ==
  IF CacheKey(font_family, font_size) \in DOMAIN cache
    THEN [font |-> LoadDefault, cache |-> cache, exc |-> "none", probed |-> FALSE]
    ELSE [font |-> LoadFont(env, font_family, font_size).font,
          cache |-> (CacheKey(font_family, font_size) :> LoadFont(env, font_family, font_size).font)
                      @@ cache,
          exc |-> "none", probed |-> TRUE]

\* _get_font: [font, cache, exc, probed]; probed says whether the search
\* list was consulted.  IOError and OSError are caught, anything else is not
\* and leaves the cache as it was.
GetFont(env, cache, font_family, font_size) ==
  LET key == CacheKey(font_family, font_size)
  IN IF key \in DOMAIN cache
       THEN [font |-> cache[key], cache |-> cache, exc |-> "none", probed |-> FALSE]
       ELSE LET r == LoadFont(env, font_family, font_size)
                font == IF r.exc = "OSError" THEN LoadDefault ELSE r.font
            IN IF r.exc \in {"none", "OSError"}
                 THEN [font |-> font, cache |-> (key :> font) @@ cache,
                       exc |-> "none", probed |-> TRUE]
                 ELSE [font |-> font, cache |-> cache, exc |-> r.exc, probed |-> TRUE]

\* columns one character advances
Advance(font) == font.size \div 2

\* first ink row below the draw origin
InkTop(font) == font.size \div 4

\* font.getbbox(text) for one line of text: (left, top, right, bottom)
FontGetBBox(font, text) ==
  IF text = <<>> THEN <<0, 0, 0, 0>>
  ELSE <<0, InkTop(font), Advance(font) * Len(text), font.size>>

(***************************************************************************)
(* Glyph metrics, line wrapper, font-size solver, positioning.             *)
(***************************************************************************)

RECURSIVE TextBBoxLoopTallest(_, _, _, _)
\* the loop of _get_text_bbox with the heights folded like the widths:
\* total_height = max(total_height, line_height)
TextBBoxLoopTallest(lines, font, max_width, total_height) ==
  IF lines = <<>> THEN <<0, 0, max_width, total_height>>
  ELSE LET bbox == FontGetBBox(font, Head(lines))
           line_width == bbox[3] - bbox[1]
           line_height == bbox[4] - bbox[2]
       IN TextBBoxLoopTallest(Tail(lines), font, Max2(max_width, line_width),
                              Max2(total_height, line_height))

RECURSIVE TextBBoxLoop(_, _, _, _)
\* the loop of _get_text_bbox over the lines
TextBBoxLoop(lines, font, max_width, total_height) ==
  IF lines = <<>> THEN <<0, 0, max_width, total_height>>
  ELSE LET bbox == FontGetBBox(font, Head(lines))
           line_width == bbox[3] - bbox[1]
           line_height == bbox[4] - bbox[2]
       IN TextBBoxLoop(Tail(lines), font, Max2(max_width, line_width),
                       total_height + line_height)

\* _get_text_bbox
GetTextBBox(text, font) == TextBBoxLoop(SplitLines(text), font, 0, 0)


RECURSIVE WrapLoopStrict(_, _, _, _, _)
\* the loop of _wrap_text with line 226 as line_width < max_width: a line
\* that would fill the width exactly is broken
WrapLoopStrict(words, font, max_width, lines, current_line) ==
  IF words = <<>>
    THEN IF current_line # <<>> THEN Append(lines, Join(<<" ">>, current_line)) ELSE lines
    ELSE LET word == Head(words)
             test_line == Append(current_line, word)
             bbox == FontGetBBox(font, Join(<<" ">>, test_line))
             line_width == bbox[3] - bbox[1]
         IN IF line_width < max_width
              THEN WrapLoopStrict(Tail(words), font, max_width, lines, test_line)
              ELSE IF current_line # <<>>
                     THEN WrapLoopStrict(Tail(words), font, max_width,
                                         Append(lines, Join(<<" ">>, current_line)), <<word>>)
                     ELSE WrapLoopStrict(Tail(words), font, max_width,
                                         Append(lines, word), <<>>)

RECURSIVE WrapLoopUnmeasured(_, _, _, _, _)
\* the loop of _wrap_text measuring the line before the word is added
\* (font.getbbox of current_line instead of test_line)
WrapLoopUnmeasured(words, font, max_width, lines, current_line) ==
  IF words = <<>>
    THEN IF current_line # <<>> THEN Append(lines, Join(<<" ">>, current_line)) ELSE lines
    ELSE LET word == Head(words)
             test_line == Append(current_line, word)
             bbox == FontGetBBox(font, Join(<<" ">>, current_line))
             line_width == bbox[3] - bbox[1]
         IN IF line_width <= max_width
              THEN WrapLoopUnmeasured(Tail(words), font, max_width, lines, test_line)
              ELSE IF current_line # <<>>
                     THEN WrapLoopUnmeasured(Tail(words), font, max_width,
                                             Append(lines, Join(<<" ">>, current_line)),
                                             <<word>>)
                     ELSE WrapLoopUnmeasured(Tail(words), font, max_width,
                                             Append(lines, word), <<>>)

RECURSIVE WrapLoopDropping(_, _, _, _, _)
\* the loop of _wrap_text without line 232 (current_line = [word]): the word
\* that opens a new line is lost
WrapLoopDropping(words, font, max_width, lines, current_line) ==
  IF words = <<>>
    THEN IF current_line # <<>> THEN Append(lines, Join(<<" ">>, current_line)) ELSE lines
    ELSE LET word == Head(words)
             test_line == Append(current_line, word)
             bbox == FontGetBBox(font, Join(<<" ">>, test_line))
             line_width == bbox[3] - bbox[1]
         IN IF line_width <= max_width
              THEN WrapLoopDropping(Tail(words), font, max_width, lines, test_line)
              ELSE IF current_line # <<>>
                     THEN WrapLoopDropping(Tail(words), font, max_width,
                                           Append(lines, Join(<<" ">>, current_line)), <<>>)
                     ELSE WrapLoopDropping(Tail(words), font, max_width,
                                           Append(lines, word), <<>>)

RECURSIVE WrapLoop(_, _, _, _, _)
\* the loop of _wrap_text over the words
WrapLoop(words, font, max_width, lines, current_line) ==
  IF words = <<>>
    THEN IF current_line # <<>> THEN Append(lines, Join(<<" ">>, current_line)) ELSE lines
    ELSE LET word == Head(words)
             test_line == Append(current_line, word)
             bbox == FontGetBBox(font, Join(<<" ">>, test_line))
             line_width == bbox[3] - bbox[1]
         IN IF line_width <= max_width
              THEN WrapLoop(Tail(words), font, max_width, lines, test_line)
              ELSE IF current_line # <<>>
                     THEN WrapLoop(Tail(words), font, max_width,
                                   Append(lines, Join(<<" ">>, current_line)), <<word>>)
                     ELSE WrapLoop(Tail(words), font, max_width, Append(lines, word), <<>>)

\* _wrap_text
WrapText(text, font, max_width) ==
  Join(<<"\n">>, WrapLoop(Split(text), font, max_width, <<>>, <<>>))

\* min_size, the step and the cap of _calculate_optimal_font_size
MinFontSize == 8
FontSizeStep == 2
MaxFontSize == 48

RECURSIVE SolveLoopNoBreak(_, _, _, _, _, _, _)
\* the for loop of _calculate_optimal_font_size without the break of line
\* 206: a candidate that does not fit is passed over and the next one tried
SolveLoopNoBreak(env, text, width, height, settings, font_size, st) ==
  LET max_size == Min2(Min2(width \div 2, height \div 2), MaxFontSize)
      padding == settings.padding
  IN IF font_size > max_size
       THEN [size |-> st.best_size, cache |-> st.cache, exc |-> "none", tried |-> st.tried]
       ELSE LET g == GetFont(env, st.cache, settings.font_family, font_size)
                wrapped_text == WrapText(text, g.font, width - padding * 2)
                bbox == GetTextBBox(wrapped_text, g.font)
                tried == Append(st.tried, font_size)
            IN IF g.exc # "none"
                 THEN [size |-> st.best_size, cache |-> g.cache, exc |-> g.exc, tried |-> tried]
                 ELSE SolveLoopNoBreak(env, text, width, height, settings,
                                       font_size + FontSizeStep,
                                       [cache |-> g.cache,
                                        best_size |->
                                          IF bbox[3] <= width - padding * 2
                                             /\ bbox[4] <= height - padding * 2
                                            THEN font_size ELSE st.best_size,
                                        tried |-> tried])

RECURSIVE SolveLoop(_, _, _, _, _, _, _)
\* the for loop of _calculate_optimal_font_size from candidate font_size on;
\* st = [cache, best_size, tried]
SolveLoop(env, text, width, height, settings, font_size, st) ==
  LET max_size == Min2(Min2(width \div 2, height \div 2), MaxFontSize)
      padding == settings.padding
  IN IF font_size > max_size
       THEN [size |-> st.best_size, cache |-> st.cache, exc |-> "none", tried |-> st.tried]
       ELSE LET g == GetFont(env, st.cache, settings.font_family, font_size)
                wrapped_text == WrapText(text, g.font, width - padding * 2)
                bbox == GetTextBBox(wrapped_text, g.font)
                tried == Append(st.tried, font_size)
            IN IF g.exc # "none"
                 THEN [size |-> st.best_size, cache |-> g.cache, exc |-> g.exc, tried |-> tried]
                 ELSE IF bbox[3] <= width - padding * 2 /\ bbox[4] <= height - padding * 2
                        THEN SolveLoop(env, text, width, height, settings,
                                       font_size + FontSizeStep,
                                       [cache |-> g.cache, best_size |-> font_size,
                                        tried |-> tried])
                        ELSE [size |-> st.best_size, cache |-> g.cache, exc |-> "none",
                              tried |-> tried]


\* _calculate_optimal_font_size with best_size assigned before the fit test:
\* the answer is the last size tried
CalculateOptimalFontSizeLastTried(env, cache, text, width, height, settings) ==
  [SolveLoop(env, text, width, height, settings, MinFontSize,
             [cache |-> cache, best_size |-> MinFontSize, tried |-> <<>>])
     EXCEPT !.size = IF @ + FontSizeStep
                          <= Min2(Min2(width \div 2, height \div 2), MaxFontSize)
                       THEN @ + FontSizeStep ELSE @]

\* _calculate_optimal_font_size returning the size after the last one that
\* fitted instead of best_size
CalculateOptimalFontSizeNext(env, cache, text, width, height, settings) ==
  [SolveLoop(env, text, width, height, settings, MinFontSize,
             [cache |-> cache, best_size |-> MinFontSize, tried |-> <<>>])
     EXCEPT !.size = @ + FontSizeStep]

\* _calculate_optimal_font_size: [size, cache, exc, tried]
CalculateOptimalFontSize(env, cache, text, width, height, settings) ==
  LET max_size == Min2(Min2(width \div 2, height \div 2), MaxFontSize)
  IN IF max_size < MinFontSize
       THEN [size |-> MinFontSize, cache |-> cache, exc |-> "none", tried |-> <<>>]
       ELSE SolveLoop(env, text, width, height, settings, MinFontSize,
                      [cache |-> cache, best_size |-> MinFontSize, tried |-> <<>>])


\* lines 258-273 of _calculate_text_position without the branch of line 258:
\* 'center' falls to the else branch and is placed like 'left'
PositionOfNoCenter(text_width, text_height, bbox, padding, alignment) ==
  LET x1 == bbox[1]
      y1 == bbox[2]
      x2 == bbox[3]
      y2 == bbox[4]
      y0 == y1 + ((y2 - y1) - text_height) \div 2
      x0 == IF alignment = "right" THEN x2 - text_width - padding ELSE x1 + padding
  IN <<Max2(x1 + padding, Min2(x0, x2 - text_width - padding)),
       Max2(y1 + padding, Min2(y0, y2 - text_height - padding))>>

\* lines 258-273 of _calculate_text_position with the clamp written as
\* min(max(...)): the far bound wins when the block is too large
PositionOfFarBound(text_width, text_height, bbox, padding, alignment) ==
  LET x1 == bbox[1]
      y1 == bbox[2]
      x2 == bbox[3]
      y2 == bbox[4]
      y0 == y1 + ((y2 - y1) - text_height) \div 2
      x0 == IF alignment = "center" THEN x1 + ((x2 - x1) - text_width) \div 2
            ELSE IF alignment = "right" THEN x2 - text_width - padding
            ELSE x1 + padding
  IN <<Min2(Max2(x1 + padding, x0), x2 - text_width - padding),
       Min2(Max2(y1 + padding, y0), y2 - text_height - padding)>>

\* lines 258-273 of _calculate_text_position, the text measured
PositionOf(text_width, text_height, bbox, padding, alignment) ==
  LET x1 == bbox[1]
      y1 == bbox[2]
      x2 == bbox[3]
      y2 == bbox[4]
      width == x2 - x1
      height == y2 - y1
      y0 == y1 + (height - text_height) \div 2
      x0 == IF alignment = "center" THEN x1 + (width - text_width) \div 2
            ELSE IF alignment = "right" THEN x2 - text_width - padding
            ELSE x1 + padding
  IN <<Max2(x1 + padding, Min2(x0, x2 - text_width - padding)),
       Max2(y1 + padding, Min2(y0, y2 - text_height - padding))>>

\* lines 253-273 of _calculate_text_position, text_bbox measured
PositionIn(text_bbox, bbox, settings) ==
  PositionOf(text_bbox[3], text_bbox[4], bbox, settings.padding, settings.alignment)

\* _calculate_text_position: <<text_x, text_y>>
CalculateTextPosition(text, font, bbox, settings) ==
  PositionIn(GetTextBBox(text, font), bbox, settings)

(***************************************************************************)
(* Rasters and the Pillow drawing primitives.                              *)
(***************************************************************************)
Pixels == (0..(ImgW - 1)) \X (0..(ImgH - 1))

\* Image.convert('RGB') of one pixel: a grey level becomes three equal channels
ConvertPixel(mode, v) == IF mode = "L" THEN <<v[1], v[1], v[1]>> ELSE v

\* Image.convert('RGB')
ConvertRGB(image) ==
  [mode |-> "RGB", px |-> [p \in Pixels |-> ConvertPixel(image.mode, image.px[p])]]

\* ImageDraw.rectangle([x1, y1, x2, y2], fill): both corners are inside the fill
InRectangle(p, bbox) ==
  /\ bbox[1] <= p[1] /\ p[1] <= bbox[3]
  /\ bbox[2] <= p[2] /\ p[2] <= bbox[4]

\* one channel of Image.alpha_composite over an opaque pixel
BlendChannel(src, dst, alpha) == (src * alpha + dst * (255 - alpha) + 127) \div 255

\* Image.alpha_composite(image, overlay) for an overlay that is fill at alpha
\* inside the rectangle and transparent elsewhere
AlphaFill(px, bbox, fill, alpha) ==
  [p \in Pixels |->
    IF InRectangle(p, bbox)
      THEN <<BlendChannel(fill[1], px[p][1], alpha),
             BlendChannel(fill[2], px[p][2], alpha),
             BlendChannel(fill[3], px[p][3], alpha)>>
      ELSE px[p]]

\* draw.rectangle(bbox, fill=fill) on the image itself
FlatFill(px, bbox, fill) == [p \in Pixels |-> IF InRectangle(p, bbox) THEN fill ELSE px[p]]

\* the spacing ImageDraw.multiline_text adds between lines (its default)
LineSpacing == 4

\* the alignments ImageDraw.multiline_text accepts
PillowAligns == {"left", "center", "right"}

\* textlength of the widest of the lines
WidestLine(lines, font) ==
  IF lines = <<>> THEN 0
  ELSE Len(lines[CHOOSE i \in 1..Len(lines) :
                   \A j \in 1..Len(lines) : Len(lines[j]) <= Len(lines[i])]) * Advance(font)

\* whether multiline_text(xy, text, font, align) puts ink on pixel p: line i
\* starts at row xy[2] + (i-1) * (font.size + LineSpacing), shifted right by
\* the alignment inside the widest line; a space leaves no ink
HasInk(p, xy, lines, widest, font, align) ==
  \E i \in 1..Len(lines) :
    LET adv == Advance(font)
        diff == widest - Len(lines[i]) * adv
        left == xy[1] + (IF align = "center" THEN diff \div 2
                         ELSE IF align = "right" THEN diff ELSE 0)
        top == xy[2] + (i - 1) * (font.size + LineSpacing)
    IN /\ top + InkTop(font) <= p[2] /\ p[2] < top + font.size
       /\ adv > 0
       /\ left <= p[1] /\ p[1] < left + Len(lines[i]) * adv
       /\ ~IsSpace(lines[i][((p[1] - left) \div adv) + 1])

\* the lines painted in fill on px
PaintLines(px, xy, lines, widest, font, fill, align) ==
  [p \in Pixels |-> IF HasInk(p, xy, lines, widest, font, align) THEN fill ELSE px[p]]

\* the lines of the text painted
PaintText(px, xy, lines, font, fill, align) ==
  PaintLines(px, xy, lines, WidestLine(lines, font), font, fill, align)

\* draw.multiline_text(xy, text, font=font, fill=fill, align=align) on px
MultilineText(px, xy, text, font, fill, align) ==
  PaintText(px, xy, SplitLines(text), font, fill, align)

(***************************************************************************)
(* The region compositor.  A context ctx = [px, cache, log, exc] is the    *)
(* working image, the font cache, the drawing calls issued so far and the  *)
(* exception in flight ("none" when there is none).                        *)
(***************************************************************************)
\* _get_default_settings
DefaultSettings ==
  [font_family |-> Arial, font_size |-> 16, font_color |-> <<0, 0, 0>>,
   bg_color |-> <<255, 255, 255>>, stroke_width |-> 0, stroke_color |-> <<0, 0, 0>>,
   padding |-> 5, alignment |-> "center",
   transparency |-> [num |-> 1, den |-> 1], auto_font_size |-> TRUE]

\* a dictionary lookup settings[k] for some k of keys raises KeyError
Missing(settings, keys) == ~(keys \subseteq DOMAIN settings)

Raise(ctx, e) == [ctx EXCEPT !.exc = e]


\* _inpaint_region with the blend taken only for 0 < transparency < 1: at
\* 0 the rectangle is overwritten like at 1
InpaintRegionOpaqueAtZero(ctx, bbox, settings) ==
  IF Missing(settings, {"bg_color", "transparency"}) THEN Raise(ctx, "KeyError")
  ELSE LET bg_color == settings.bg_color
           transparency == settings.transparency
       IN IF 0 < transparency.num /\ transparency.num < transparency.den
            THEN LET alpha == (255 * transparency.num) \div transparency.den
                 IN [ctx EXCEPT !.px = AlphaFill(ctx.px, bbox, bg_color, alpha),
                                !.log = Append(ctx.log, [op |-> "erase", bbox |-> bbox,
                                                         alpha |-> alpha])]
            ELSE [ctx EXCEPT !.px = FlatFill(ctx.px, bbox, bg_color),
                             !.log = Append(ctx.log, [op |-> "erase", bbox |-> bbox,
                                                      alpha |-> 255])]

\* _inpaint_region
InpaintRegion(ctx, bbox, settings) ==
  IF Missing(settings, {"bg_color", "transparency"}) THEN Raise(ctx, "KeyError")
  ELSE LET bg_color == settings.bg_color
           transparency == settings.transparency
       IN IF transparency.num < transparency.den
            THEN LET alpha == (255 * transparency.num) \div transparency.den
                 IN [ctx EXCEPT !.px = AlphaFill(ctx.px, bbox, bg_color, alpha),
                                !.log = Append(ctx.log, [op |-> "erase", bbox |-> bbox,
                                                         alpha |-> alpha])]
            ELSE [ctx EXCEPT !.px = FlatFill(ctx.px, bbox, bg_color),
                             !.log = Append(ctx.log, [op |-> "erase", bbox |-> bbox,
                                                      alpha |-> 255])]

\* one draw.multiline_text call, logged; an alignment Pillow does not know
\* raises ValueError before anything is drawn
DrawText(ctx, xy, text, font, fill, align) ==
  IF align \notin PillowAligns THEN Raise(ctx, "ValueError")
  ELSE [ctx EXCEPT !.px = MultilineText(ctx.px, xy, text, font, fill, align),
                   !.log = Append(ctx.log, [op |-> "text", xy |-> xy, text |-> text,
                                            font |-> font, fill |-> fill,
                                            align |-> align])]

RECURSIVE StrokeLoop(_, _, _, _, _, _, _)
\* the two nested loops of _draw_text_with_stroke, from offset number k on;
\* offset k is (dx, dy) = (k \div n - w, k % n - w) with n = 2w + 1.
\* multiline_text is called without align, which is then "left".
StrokeLoop(ctx, x, y, text, font, st, k) ==
  LET w == st.stroke_width
      n == 2 * w + 1
      dx == (k \div n) - w
      dy == (k % n) - w
  IN IF k >= n * n \/ ctx.exc # "none" THEN ctx
     ELSE IF dx # 0 \/ dy # 0
            THEN StrokeLoop(DrawText(ctx, <<x + dx, y + dy>>, text, font,
                                     st.stroke_color, "left"),
                            x, y, text, font, st, k + 1)
            ELSE StrokeLoop(ctx, x, y, text, font, st, k + 1)

\* line 348 of _draw_text_with_stroke: the text itself, on top
DrawFill(c, x, y, text, font, fill_color) ==
  IF c.exc # "none" THEN c ELSE DrawText(c, <<x, y>>, text, font, fill_color, "left")


\* _draw_text_with_stroke without the test of line 340: the stroke colour is
\* drawn at the offset (0, 0) too
DrawTextWithStrokeAtCentre(ctx, x, y, text, font, fill_color, stroke_color, stroke_width) ==
  DrawFill(StrokeLoop(DrawText(ctx, <<x, y>>, text, font, stroke_color, "left"),
                      x, y, text, font,
                      [stroke_color |-> stroke_color, stroke_width |-> stroke_width], 0),
           x, y, text, font, fill_color)

\* _draw_text_with_stroke
DrawTextWithStroke(ctx, x, y, text, font, fill_color, stroke_color, stroke_width) ==
  DrawFill(StrokeLoop(ctx, x, y, text, font,
                      [stroke_color |-> stroke_color, stroke_width |-> stroke_width], 0),
           x, y, text, font, fill_color)


\* lines 145-148 of _insert_text with the font fetched at settings['font_size']
\* whatever the solver answered
FontOfSizeRequested(env, settings, s, solved) ==
  IF s.exc # "none"
    THEN [font_size |-> s.size, font |-> LoadDefault, cache |-> s.cache, exc |-> s.exc,
          solved |-> solved]
    ELSE [font_size |-> s.size, solved |-> solved]
           @@ GetFont(env, s.cache, settings.font_family, settings.font_size)

\* lines 145-148 of _insert_text once the size is known: s = [size, cache, exc]
\* is the solver's answer or the requested size
FontOfSize(env, settings, s, solved) ==
  IF s.exc # "none"
    THEN [font_size |-> s.size, font |-> LoadDefault, cache |-> s.cache, exc |-> s.exc,
          solved |-> solved]
    ELSE [font_size |-> s.size, solved |-> solved]
           @@ GetFont(env, s.cache, settings.font_family, s.size)

\* lines 143-148 of _insert_text without the test of auto_font_size: the
\* solver is always asked
ChooseFontSolving(env, cache, text, width, height, settings) ==
  FontOfSize(env, settings,
             CalculateOptimalFontSize(env, cache, text, width, height, settings), TRUE)

\* lines 143-148 of _insert_text: the font size and the font handle;
\* [font_size, font, cache, exc, solved], solved saying whether the solver ran
ChooseFont(env, cache, text, width, height, settings) ==
  IF Missing(settings, {"font_size", "auto_font_size"})
    THEN [font_size |-> 0, font |-> LoadDefault, cache |-> cache, exc |-> "KeyError",
          solved |-> FALSE]
  ELSE IF Missing(settings,
                  IF settings.auto_font_size
                     /\ Min2(Min2(width \div 2, height \div 2), MaxFontSize) >= MinFontSize
                    THEN {"padding", "font_family"} ELSE {"font_family"})
    THEN [font_size |-> 0, font |-> LoadDefault, cache |-> cache, exc |-> "KeyError",
          solved |-> settings.auto_font_size]
  ELSE IF settings.auto_font_size
    THEN FontOfSize(env, settings,
                    CalculateOptimalFontSize(env, cache, text, width, height, settings),
                    TRUE)
    ELSE FontOfSize(env, settings,
                    [size |-> settings.font_size, cache |-> cache, exc |-> "none"], FALSE)

\* lines 158-173 of _insert_text: the drawing of the wrapped text at pos
RenderText(ctx, pos, wrapped_text, font, settings) ==
  IF settings.stroke_width > 0
    THEN IF Missing(settings, {"stroke_color"}) THEN Raise(ctx, "KeyError")
         ELSE DrawTextWithStroke(ctx, pos[1], pos[2], wrapped_text, font,
                                 settings.font_color, settings.stroke_color,
                                 settings.stroke_width)
    ELSE DrawText(ctx, pos, wrapped_text, font, settings.font_color, settings.alignment)

\* lines 153-173 of _insert_text: position, then draw
PlaceText(ctx, bbox, wrapped_text, font, settings) ==
  RenderText(ctx, CalculateTextPosition(wrapped_text, font, bbox, settings),
             wrapped_text, font, settings)

\* lines 148-173 of _insert_text with the font f chosen: the font size used is
\* logged, the text wrapped, placed and drawn
InsertWithFont(ctx, bbox, text, settings, f) ==
  IF f.exc # "none" THEN Raise([ctx EXCEPT !.cache = f.cache], f.exc)
  ELSE IF Missing(settings, {"padding", "alignment", "stroke_width", "font_color"})
    THEN Raise([ctx EXCEPT !.cache = f.cache], "KeyError")
  ELSE PlaceText([ctx EXCEPT !.cache = f.cache,
                             !.log = Append(ctx.log, [op |-> "font", size |-> f.font_size,
                                                      font |-> f.font,
                                                      solved |-> f.solved])],
                 bbox,
                 WrapText(text, f.font, (bbox[3] - bbox[1]) - settings.padding * 2),
                 f.font, settings)

\* _insert_text
InsertText(env, ctx, bbox, text, settings) ==
  IF Strip(text) = <<>> THEN ctx
  ELSE InsertWithFont(ctx, bbox, text, settings,
                      ChooseFont(env, ctx.cache, text, bbox[3] - bbox[1],
                                 bbox[4] - bbox[2], settings))

\* lines 94-97 of _process_text_region: the text goes in after the erase
InsertAfterErase(env, c, bbox, text, settings) ==
  IF c.exc # "none" THEN c ELSE InsertText(env, c, bbox, text, settings)

\* _process_text_region without the size check of lines 87-89
ProcessTextRegionUnchecked(env, ctx, result, settings) ==
  InsertAfterErase(env, InpaintRegion(ctx, result.bbox, settings), result.bbox,
                   result.translated_text, settings)

\* _process_text_region
ProcessTextRegion(env, ctx, result, settings) ==
  IF result.bbox[3] - result.bbox[1] < 10 \/ result.bbox[4] - result.bbox[2] < 10
    THEN ctx
    ELSE InsertAfterErase(env, InpaintRegion(ctx, result.bbox, settings), result.bbox,
                          result.translated_text, settings)

(***************************************************************************)
(* The page compositor and the preview entry point.                        *)
(***************************************************************************)
\* np.array(image): the value an entry point returns
AsArray(image) == [kind |-> "array", mode |-> image.mode, px |-> image.px]

\* a fresh context on the pixels px
NewCtx(px, cache) == [px |-> px, cache |-> cache, log |-> <<>>, exc |-> "none"]


RECURSIVE PageLoopReversed(_, _, _, _, _)
\* the for loop of inpaint_and_replace_text taking the list from its end:
\* the regions after i are processed before region i
PageLoopReversed(env, ctx, results, i, settings) ==
  IF i > Len(results) THEN ctx
  ELSE LET c == PageLoopReversed(env, ctx, results, i + 1, settings)
       IN IF c.exc # "none" THEN c
          ELSE IF Strip(results[i].translated_text) # <<>>
                 THEN ProcessTextRegion(env, c, results[i], settings)
                 ELSE c

RECURSIVE PageLoop(_, _, _, _, _)
\* the for loop of inpaint_and_replace_text from region i on; an exception
\* leaves the loop
PageLoop(env, ctx, results, i, settings) ==
  IF i > Len(results) \/ ctx.exc # "none" THEN ctx
  ELSE IF Strip(results[i].translated_text) # <<>>
         THEN PageLoop(env, ProcessTextRegion(env, ctx, results[i], settings),
                       results, i + 1, settings)
         ELSE PageLoop(env, ctx, results, i + 1, settings)

\* settings = self._get_default_settings(); settings.update(text_settings)
\* when text_settings is neither None nor an empty dictionary
MergeSettings(text_settings) ==
  IF DOMAIN text_settings # {} THEN text_settings @@ DefaultSettings ELSE DefaultSettings

\* what an entry point hands back from its final context c: [ret, cache, log],
\* ret the array returned or the exception raised
Returned(c, array) ==
  [ret |-> IF c.exc # "none" THEN [kind |-> "raise", exc |-> c.exc] ELSE array,
   cache |-> c.cache, log |-> c.log]

\* line 56 of inpaint_and_replace_text
ReturnPage(c) == Returned(c, AsArray([mode |-> "RGB", px |-> c.px]))

\* inpaint_and_replace_text without the early return of lines 36-38: the
\* image is converted and the loop entered whatever the list
InpaintAndReplaceTextConverting(env, cache, opened, results, text_settings) ==
  ReturnPage(PageLoop(env, NewCtx(ConvertRGB(opened).px, cache), results, 1,
                      MergeSettings(text_settings)))

\* inpaint_and_replace_text on the image Image.open(image_path) gives
InpaintAndReplaceText(env, cache, opened, results, text_settings) ==
  IF results = <<>>
    THEN [ret |-> AsArray(opened), cache |-> cache, log |-> <<>>]
    ELSE ReturnPage(PageLoop(env, NewCtx(ConvertRGB(opened).px, cache), results, 1,
                             MergeSettings(text_settings)))

\* processed.crop(box) followed by np.array
CropArray(px, box) ==
  [kind |-> "array", mode |-> "RGB",
   px |-> [p \in (0..(box[3] - box[1] - 1)) \X (0..(box[4] - box[2] - 1)) |->
             px[<<p[1] + box[1], p[2] + box[2]>>]]]

\* lines 378-385 of preview_settings
ReturnPreview(c, sample_bbox) ==
  Returned(c, CropArray(c.px, <<Max2(0, sample_bbox[1] - 20), Max2(0, sample_bbox[2] - 20),
                                Min2(ImgW, sample_bbox[3] + 20),
                                Min2(ImgH, sample_bbox[4] + 20)>>))

\* preview_settings: [ret, cache, log]
PreviewSettings(env, cache, opened, sample_bbox, sample_text, settings) ==
  ReturnPreview(ProcessTextRegion(env, NewCtx(ConvertRGB(opened).px, cache),
                                  [bbox |-> sample_bbox, translated_text |-> sample_text],
                                  settings),
                sample_bbox)

(***************************************************************************)
(* The inputs the callers draw from.                                       *)
(***************************************************************************)
\* a decoded RGB page, two-toned
ColourPage ==
  [mode |-> "RGB", px |-> [p \in Pixels |-> IF (p[1] + p[2]) % 2 = 0 THEN <<0, 0, 255>>
                                              ELSE <<0, 0, 128>>]]

\* a decoded greyscale page (mode L: one channel per pixel), two-toned
GreyPage ==
  [mode |-> "L", px |-> [p \in Pixels |-> IF (p[1] + p[2]) % 2 = 0 THEN <<200>>
                                            ELSE <<100>>]]

\* the machines the sessions run on: the fonts of the platform and the page
\* that was uploaded
Machines ==
  { [fonts |-> LinuxFonts, page |-> "colour.png"], [fonts |-> OtherFonts, page |-> "grey.png"] }

\* the image a file decodes to
Decoded(file) == IF file = "grey.png" THEN GreyPage ELSE ColourPage

\* two adjacent rectangles that pass the size check, and one that is too narrow
RectA == <<0, 0, 10, 10>>

RectB == <<10, 0, 20, 10>>

RectS == <<1, 0, 10, 10>>

\* the rectangle lists the detector returns for the pages of the model
Layouts ==
  {<<>>, <<RectA>>, <<RectB>>, <<RectS>>, <<RectA, RectB>>, <<RectB, RectA>>,
   <<RectS, RectB>>}

\* replacement texts: empty, blank, a word, two words, a longer word
Texts == {<<>>, <<" ">>, <<"a">>, <<"a", " ", "a">>, <<"a", "a", "a">>}

\* text_settings None (or an empty dictionary)
NoSettings == [k \in {} |-> 0]

\* an empty fonts_cache
EmptyCache == [k \in {} |-> 0]

\* a caller that passes some of the keys: the family as "Arial", a fixed size,
\* left-aligned, no padding
ManualSettings ==
  [font_family |-> ArialUpper, auto_font_size |-> FALSE, font_size |-> 6, padding |-> 0,
   alignment |-> "left"]

\* a full style: translucent red fill, outlined text, another family
StyledSettings ==
  [font_family |-> Times, font_size |-> 16, font_color |-> <<0, 0, 0>>,
   bg_color |-> <<255, 0, 0>>, stroke_width |-> 1, stroke_color |-> <<255, 255, 255>>,
   padding |-> 0, alignment |-> "right",
   transparency |-> [num |-> 1, den |-> 2], auto_font_size |-> TRUE]

\* a style whose alignment Pillow rejects
BadAlignSettings == [alignment |-> "middle", padding |-> 0]

StylePresets == {NoSettings, ManualSettings, StyledSettings, BadAlignSettings}

(***************************************************************************)
(* State.                                                                  *)
(***************************************************************************)
VARIABLES
  fontEnv,        \* the platform's fonts (fixed for a run)
  fileImage,      \* the file at image_path
  results,        \* the caller's region list: records [bbox, translated_text]
  text_settings,  \* the caller's style dictionary
  fonts_cache,    \* TextInpainter.fonts_cache
  out,            \* what the last call returned or raised for the current
                  \* arguments; no value once the caller changes them
  log,            \* the drawing calls of that call
  entry,          \* the call that produced out: "none", "page" (first page
                  \* call with these arguments), "again" (a repeated one),
                  \* "preview"
  round           \* the round of the session

vars == <<fontEnv, fileImage, results, text_settings, fonts_cache, out, log, entry, round>>

NoValue == [kind |-> "none"]

\* TextInpainter.__init__ and a fresh session of the application
Init ==
  /\ \E m \in Machines : fontEnv = m.fonts /\ fileImage = m.page
  /\ results = <<>>
  /\ text_settings \in StylePresets
  /\ fonts_cache = EmptyCache
  /\ out = NoValue
  /\ log = <<>>
  /\ entry = "none"
  /\ round = 1

\* a compositor that keeps its working image between calls: the raster it
\* returned last, when there is one, instead of the file
ReusePainted ==
  IF out.kind = "array" THEN [mode |-> out.mode, px |-> out.px] ELSE Decoded(fileImage)

\* Image.open(image_path)
OpenImage == Decoded(fileImage)

\* the rectangles of the region list
BBoxes(rs) == [i \in 1..Len(rs) |-> rs[i].bbox]

\* the pipeline appends the record of one more detected bubble, before the
\* page is composited for the first time
AppendResult(bbox, text) ==
  /\ round = 1 /\ entry = "none"
  /\ \E layout \in Layouts :
       /\ Len(layout) > Len(results)
       /\ SubSeq(layout, 1, Len(results) + 1) = Append(BBoxes(results), bbox)
  /\ results' = Append(results, [bbox |-> bbox, translated_text |-> text])
  /\ UNCHANGED <<fontEnv, fileImage, text_settings, fonts_cache, out, log, entry, round>>

\* the user edits the translation of bubble i in its text area; what was
\* shown for the old text is dropped
EditTranslation(i, text) ==
  /\ i \in 1..Len(results)
  /\ text # results[i].translated_text
  /\ entry # "none" => round < MaxRounds
  /\ results' = [results EXCEPT ![i].translated_text = text]
  /\ out' = NoValue
  /\ log' = <<>>
  /\ entry' = "none"
  /\ round' = IF entry # "none" THEN round + 1 ELSE round
  /\ UNCHANGED <<fontEnv, fileImage, text_settings, fonts_cache>>

\* the caller receives what a call of the inpainter gave, r = [ret, cache, log]
Receive(r) ==
  /\ out' = r.ret
  /\ fonts_cache' = r.cache
  /\ log' = r.log

\* the caller's dictionary with the defaults written into it: the merge of
\* lines 44-46 done in text_settings instead of the fresh dictionary
CallerObjectsMerged(text_regions, settings) ==
  [results |-> text_regions, text_settings |-> MergeSettings(settings)]

\* the caller's region records and style dictionary, passed by reference, as
\* inpaint_and_replace_text leaves them: settings.update(text_settings) writes
\* into the fresh dictionary of defaults, and the loop only reads
\* result['bbox'] and result.get('translated_text')
CallerObjects(text_regions, settings) ==
  [results |-> text_regions, text_settings |-> settings]

\* one call inpaint_and_replace_text(image_path, results, text_settings);
\* a third call on the same arguments is not modelled
Composite ==
  /\ entry # "again"
  /\ Receive(InpaintAndReplaceText(fontEnv, fonts_cache, OpenImage, results, text_settings))
  /\ entry' = IF entry = "page" THEN "again" ELSE "page"
  /\ results' = CallerObjects(results, text_settings).results
  /\ text_settings' = CallerObjects(results, text_settings).text_settings
  /\ UNCHANGED <<fontEnv, fileImage, round>>

\* one call preview_settings(image_path, bbox, text, settings) on bubble i of
\* the page, with the caller's style as it is
Preview(i) ==
  /\ i \in 1..Len(results)
  /\ Receive(PreviewSettings(fontEnv, fonts_cache, OpenImage, results[i].bbox,
                             results[i].translated_text, text_settings))
  /\ entry' = "preview"
  /\ UNCHANGED <<fontEnv, fileImage, results, text_settings, round>>

Next ==
  \/ \E bbox \in {RectA, RectB, RectS}, text \in Texts : AppendResult(bbox, text)
  \/ \E i \in 1..Len(results), text \in Texts : EditTranslation(i, text)
  \/ Composite

\* sessions of the page compositor
Spec == Init /\ [][Next]_vars

PreviewNext ==
  \/ \E bbox \in {RectA, RectB, RectS}, text \in Texts : AppendResult(bbox, text)
  \/ \E i \in 1..Len(results), text \in Texts : EditTranslation(i, text)
  \/ \E i \in 1..Len(results) : Preview(i)

\* sessions of the preview entry point
PreviewSpec == Init /\ [][PreviewNext]_vars

(***************************************************************************)
(* Direct calls of the helpers of one TextInpainter.  out is the record of *)
(* the last call, its arguments and what it returned; entry is the helper  *)
(* that was called; fonts_cache is the cache the calls leave behind.       *)
(***************************************************************************)
\* widths and heights of the rectangles the helpers are called on
Boxes == {<<10, 10>>, <<12, 40>>, <<16, 16>>, <<24, 40>>, <<40, 24>>}

\* texts of one or several words, short and long
Phrases ==
  {<<>>, <<"a">>, <<"a", "a", "a">>, <<"a", " ", "a">>, <<" ", "a", "a", " ", " ", "a", "\n", "a", "a", " ">>,
   <<"a", " ", "a", " ", "a", "a", "a", "a">>, <<"a", "a", "a", "a", "a", "a", "a">>}

\* the caller receives the solver's answer r = [size, cache, exc, tried]
ReceiveSize(text, box, r) ==
  /\ out' = [kind |-> "size", text |-> text, width |-> box[1], height |-> box[2], ret |-> r]
  /\ fonts_cache' = r.cache
  /\ entry' = "_calculate_optimal_font_size"

\* one call _calculate_optimal_font_size(text, width, height, settings) with
\* the merged style
Solve(text, box) ==
  /\ ReceiveSize(text, box,
                 CalculateOptimalFontSize(fontEnv, fonts_cache, text, box[1], box[2],
                                          MergeSettings(text_settings)))
  /\ UNCHANGED <<fontEnv, fileImage, results, text_settings, log, round>>

\* the widths the wrapper is given: width - 2 * padding can be zero or negative
MaxWidths == {-2, 0, 4, 8, 12, 30}

\* one call _wrap_text(text, font, max_width) with a font handle of the cache;
\* the record keeps the list of lines and the string joined from it
Wrap(text, font, max_width) ==
  /\ out' = [kind |-> "wrap", text |-> text, font |-> font, max_width |-> max_width,
             lines |-> WrapLoop(Split(text), font, max_width, <<>>, <<>>),
             ret |-> WrapText(text, font, max_width)]
  /\ entry' = "_wrap_text"
  /\ UNCHANGED <<fontEnv, fileImage, results, text_settings, fonts_cache, log, round>>

\* the caller receives the draw origin of the wrapped text
ReceivePosition(wrapped_text, font, bbox, xy) ==
  /\ out' = [kind |-> "position", text |-> wrapped_text, font |-> font, bbox |-> bbox,
             ret |-> xy]
  /\ entry' = "_calculate_text_position"

\* lines 151-156 of _insert_text with the wrapped text at hand: one call
\* _calculate_text_position(wrapped_text, font, bbox, settings)
PositionWrapped(wrapped_text, font, bbox) ==
  ReceivePosition(wrapped_text, font, bbox,
                  CalculateTextPosition(wrapped_text, font, bbox, MergeSettings(text_settings)))

\* the text is wrapped for a rectangle of the size of box with its corner at
\* (3, 2), and the block positioned in it
Position(text, font, box) ==
  /\ PositionWrapped(WrapText(text, font, box[1] - MergeSettings(text_settings).padding * 2),
                     font, <<3, 2, 3 + box[1], 2 + box[2]>>)
  /\ UNCHANGED <<fontEnv, fileImage, results, text_settings, fonts_cache, log, round>>

\* the caller receives the image _inpaint_region returns for the image before
ReceiveErased(bbox, before, c) ==
  /\ out' = [kind |-> "erase", bbox |-> bbox, before |-> before, ret |-> c.px,
             exc |-> c.exc]
  /\ entry' = "_inpaint_region"

\* one call _inpaint_region(image, bbox, settings) on the converted page
Erase(bbox) ==
  /\ ReceiveErased(bbox, ConvertRGB(OpenImage).px,
                   InpaintRegion(NewCtx(ConvertRGB(OpenImage).px, fonts_cache), bbox,
                                 MergeSettings(text_settings)))
  /\ UNCHANGED <<fontEnv, fileImage, results, text_settings, fonts_cache, log, round>>


\* blocks of text with explicit line breaks, empty lines among them
Blocks ==
  {<<>>, <<"a">>, <<"a", "a", "\n", "a">>, <<"a", "\n", "\n", "a", "a", "a">>,
   <<"a", " ", "a", "\n", "a", "a", "a", "a", "\n", "a">>}

\* one call _get_text_bbox(text, font) with a font handle of the cache
Measure(text, font) ==
  /\ out' = [kind |-> "bbox", text |-> text, font |-> font, ret |-> GetTextBBox(text, font)]
  /\ entry' = "_get_text_bbox"
  /\ UNCHANGED <<fontEnv, fileImage, results, text_settings, fonts_cache, log, round>>


\* values of the transparency slider: the two ends of its range and the middle
Transparencies == {[num |-> 0, den |-> 1], [num |-> 1, den |-> 2], [num |-> 1, den |-> 1]}

\* the caller receives the image _inpaint_region returns at a transparency
ReceiveErasedAt(bbox, transparency, before, c) ==
  /\ out' = [kind |-> "erase_at", bbox |-> bbox, transparency |-> transparency,
             before |-> before, ret |-> c.px, exc |-> c.exc]
  /\ entry' = "_inpaint_region"

\* one call _inpaint_region(image, bbox, settings) on the converted page, the
\* style's transparency set by the slider
EraseAt(bbox, transparency) ==
  /\ ReceiveErasedAt(bbox, transparency, ConvertRGB(OpenImage).px,
                     InpaintRegion(NewCtx(ConvertRGB(OpenImage).px, fonts_cache), bbox,
                                   [MergeSettings(text_settings)
                                      EXCEPT !.transparency = transparency]))
  /\ UNCHANGED <<fontEnv, fileImage, results, text_settings, fonts_cache, log, round>>

HelperNext ==
  \/ \E text \in Phrases, box \in Boxes : Solve(text, box)
  \/ \E text \in Blocks, key \in DOMAIN fonts_cache : Measure(text, fonts_cache[key])
  \/ \E bbox \in {RectA, RectB} : Erase(bbox)
  \/ \E bbox \in {RectA, RectB}, transparency \in Transparencies : EraseAt(bbox, transparency)
  \/ \E text \in Phrases, key \in DOMAIN fonts_cache, box \in Boxes :
       Position(text, fonts_cache[key], box)
  \/ \E text \in Phrases, key \in DOMAIN fonts_cache, max_width \in MaxWidths :
       Wrap(text, fonts_cache[key], max_width)

\* sessions of direct helper calls
HelperSpec == Init /\ [][HelperNext]_vars


(***************************************************************************)
(* Direct calls of _insert_text on one TextInpainter, for styles with and  *)
(* without a stroke.                                                       *)
(***************************************************************************)
\* the style with a stroke of width 1, right-aligned, and variants of it
StrokeStyles ==
  {StyledSettings,
   [StyledSettings EXCEPT !.stroke_width = 0],
   [StyledSettings EXCEPT !.stroke_width = 2, !.alignment = "center",
                          !.stroke_color = <<0, 0, 0>>],
   [StyledSettings EXCEPT !.alignment = "middle", !.auto_font_size = FALSE,
                          !.font_size = 8]}

\* a fresh session with one of the styles of the text renderer
InsertInit ==
  /\ \E m \in Machines : fontEnv = m.fonts /\ fileImage = m.page
  /\ results = <<>>
  /\ text_settings \in {NoSettings, ManualSettings} \cup StrokeStyles
  /\ fonts_cache = EmptyCache
  /\ out = NoValue
  /\ log = <<>>
  /\ entry = "none"
  /\ round = 1

\* rectangles the text is inserted in, from the corner of the page
InsertRects == {<<0, 0, 20, 10>>, <<0, 0, 16, 16>>, <<0, 0, 40, 24>>}

\* replacement texts: blank, one word, several words
InsertTexts ==
  {<<" ">>, <<"a">>, <<"a", " ", "a", "a", "a">>,
   <<"a", "a", " ", "a", " ", "a", "a", "a", " ", "a">>}

\* the caller receives the image and the context c the call leaves
ReceiveInserted(bbox, text, c) ==
  /\ out' = [kind |-> "insert", bbox |-> bbox, text |-> text, ret |-> c.px, exc |-> c.exc]
  /\ log' = c.log
  /\ fonts_cache' = c.cache
  /\ entry' = "_insert_text"

\* one call _insert_text(image, bbox, text, settings) on the converted page
\* with the merged style
Insert(bbox, text) ==
  /\ ReceiveInserted(bbox, text,
                     InsertText(fontEnv, NewCtx(ConvertRGB(OpenImage).px, fonts_cache),
                                bbox, text, MergeSettings(text_settings)))
  /\ UNCHANGED <<fontEnv, fileImage, results, text_settings, round>>

InsertNext == \E bbox \in InsertRects, text \in InsertTexts : Insert(bbox, text)

\* sessions of direct calls of the text renderer
InsertSpec == InsertInit /\ [][InsertNext]_vars


(***************************************************************************)
(* The pipeline of the application: detection, recognition, translation    *)
(* and the page composite, for one uploaded page.  log is the translator   *)
(* calls of the run followed by the drawing calls of the composite.        *)
(***************************************************************************)
\* a rectangle that overlaps RectA in columns 5..10
RectO == <<5, 0, 15, 10>>

\* the rectangle lists the detector returns for the pages of the pipeline
PipelineLayouts ==
  {<<>>, <<RectA>>, <<RectS>>, <<RectA, RectB>>, <<RectA, RectO>>, <<RectO, RectA>>}

\* what extract_text_simple returns: "" or a cleaned text of two characters
\* or more
OcrTexts == {<<>>, <<"a", "a">>, <<"a", " ", "a">>}

\* the pairs of languages chosen in the sidebar
LanguagePairs == {<<"ja", "en">>, <<"zh", "en">>, <<"en", "en">>}

\* the remote translation service during one run: what its first request and
\* the requests of the fallback give, a text or an exception
RemoteAnswers ==
  {[first |-> [raise |-> FALSE, result |-> <<"b", "b", "b">>],
    second |-> [raise |-> FALSE, result |-> <<"b", "b", "b">>]],
   [first |-> [raise |-> FALSE, result |-> <<>>],
    second |-> [raise |-> FALSE, result |-> <<>>]],
   [first |-> [raise |-> TRUE, result |-> <<>>],
    second |-> [raise |-> FALSE, result |-> <<"b">>]],
   [first |-> [raise |-> TRUE, result |-> <<>>],
    second |-> [raise |-> TRUE, result |-> <<>>]]}

\* TextTranslator._translate_alternative
TranslateAlternative(text, source_lang, target_lang, remote) ==
  IF source_lang = "zh"
    THEN IF ~remote.second.raise /\ remote.second.result # <<>>
            /\ remote.second.result # text
           THEN remote.second.result ELSE text
    ELSE IF remote.second.raise THEN text
         ELSE IF remote.second.result # <<>> THEN remote.second.result ELSE text

\* TextTranslator.translate
Translate(text, source_lang, target_lang, remote) ==
  IF text = <<>> \/ Strip(text) = <<>> THEN <<>>
  ELSE IF source_lang = target_lang THEN text
  ELSE IF remote.first.raise
    THEN TranslateAlternative(text, source_lang, target_lang, remote)
  ELSE IF remote.first.result # <<>> /\ remote.first.result # text
    THEN remote.first.result
  ELSE text

\* lines 214-220 of process_manga_page_with_inpainting with the translator
\* called whatever the recognized text
TranslateBubbleUnguarded(i, original_text, source_lang, target_lang, remote) ==
  [translated_text |-> Translate(original_text, source_lang, target_lang, remote),
   calls |-> <<[op |-> "translate", bubble |-> i, text |-> original_text,
                source |-> source_lang, target |-> target_lang]>>]

\* lines 214-220 of process_manga_page_with_inpainting for bubble i:
\* [translated_text, calls], calls the translator calls made
TranslateBubble(i, original_text, source_lang, target_lang, remote) ==
  IF original_text # <<>>
    THEN IF source_lang # target_lang
           THEN [translated_text |-> Translate(original_text, source_lang, target_lang,
                                               remote),
                 calls |-> <<[op |-> "translate", bubble |-> i, text |-> original_text,
                              source |-> source_lang, target |-> target_lang]>>]
           ELSE [translated_text |-> original_text, calls |-> <<>>]
    ELSE [translated_text |-> <<>>, calls |-> <<>>]

\* lines 222-230: the record appended for a bubble, t what TranslateBubble gave
BubbleResult(bbox, original_text, source_lang, target_lang, t) ==
  [bbox |-> bbox, original_text |-> original_text,
   translated_text |-> t.translated_text,
   source_language |-> source_lang, target_language |-> target_lang]

RECURSIVE BubbleLoop(_, _, _, _, _, _, _)
\* the for loop of process_manga_page_with_inpainting from bubble i on;
\* st = [results, calls]
BubbleLoop(bubbles, ocr_texts, source_lang, target_lang, remote, i, st) ==
  IF i > Len(bubbles) THEN st
  ELSE BubbleLoop(bubbles, ocr_texts, source_lang, target_lang, remote, i + 1,
                  [results |-> Append(st.results,
                                      BubbleResult(bubbles[i], ocr_texts[i], source_lang,
                                                   target_lang,
                                                   TranslateBubble(i, ocr_texts[i],
                                                                   source_lang,
                                                                   target_lang, remote))),
                   calls |-> st.calls
                               \o TranslateBubble(i, ocr_texts[i], source_lang,
                                                  target_lang, remote).calls])

\* lines 236-246: final_image, [ret, cache, log]; None when the style is
\* absent or the composite is switched off, and when the composite raises
FinalImage(env, cache, opened, text_regions, settings) ==
  IF DOMAIN settings # {} /\ "enable_inpainting" \in DOMAIN settings
     /\ settings.enable_inpainting
    THEN [InpaintAndReplaceText(env, cache, opened, text_regions, settings)
            EXCEPT !.ret = IF @.kind = "raise" THEN NoValue ELSE @]
    ELSE [ret |-> NoValue, cache |-> cache, log |-> <<>>]

\* the caller receives (results, final_image); b = [results, calls] is what
\* the loop over the bubbles gave and c = [ret, cache, log] the composite
ReceivePage(b, c) ==
  /\ results' = b.results
  /\ out' = [kind |-> "processed", final_image |-> c.ret]
  /\ fonts_cache' = c.cache
  /\ log' = b.calls \o c.log

\* lines 202-248 once the bubbles are detected
ProcessBubbles(b) ==
  ReceivePage(b, FinalImage(fontEnv, fonts_cache, OpenImage, b.results, text_settings))

\* one call process_manga_page_with_inpainting on the uploaded page; the
\* detector's rectangles, the recognized texts and the answers of the remote
\* translation service are its inputs
ProcessMangaPage(bubbles, ocr_texts, source_lang, target_lang, remote) ==
  /\ entry = "none"
  /\ IF bubbles = <<>>
       THEN ReceivePage([results |-> <<>>, calls |-> <<>>],
                        [ret |-> NoValue, cache |-> fonts_cache, log |-> <<>>])
       ELSE ProcessBubbles(BubbleLoop(bubbles, ocr_texts, source_lang, target_lang, remote,
                                      1, [results |-> <<>>, calls |-> <<>>]))
  /\ entry' = "pipeline"
  /\ UNCHANGED <<fontEnv, fileImage, text_settings, round>>

\* the style the sidebar builds with its defaults, and one with a translucent
\* fill and a stroke
SidebarStyles ==
  {[enable_inpainting |-> TRUE] @@ DefaultSettings,
   [enable_inpainting |-> TRUE] @@ StyledSettings}

\* a fresh session with the style of the sidebar, or none
PipelineInit ==
  /\ \E m \in Machines : fontEnv = m.fonts /\ fileImage = m.page
  /\ results = <<>>
  /\ text_settings \in {NoSettings} \cup SidebarStyles
  /\ fonts_cache = EmptyCache
  /\ out = NoValue
  /\ log = <<>>
  /\ entry = "none"
  /\ round = 1

PipelineNext ==
  \E bubbles \in PipelineLayouts, pair \in LanguagePairs, remote \in RemoteAnswers :
    \E ocr_texts \in [1..Len(bubbles) -> OcrTexts] :
      ProcessMangaPage(bubbles, ocr_texts, pair[1], pair[2], remote)

\* sessions of the pipeline, one page each
PipelineSpec == PipelineInit /\ [][PipelineNext]_vars

(***************************************************************************)
(* Direct font lookups on one TextInpainter.                               *)
(***************************************************************************)
\* the family names the lookups are made with
Families == {Arial, ArialUpper, Times}

\* the sizes the lookups are made with: a requested font_size is any integer
FontSizes == {-1, 0, 8, 16}

\* the caller receives what _get_font gave, r = [font, cache, exc, probed]
ReceiveFont(font_family, font_size, r) ==
  /\ out' = [kind |-> "font", family |-> font_family, size |-> font_size, ret |-> r]
  /\ fonts_cache' = r.cache
  /\ entry' = "_get_font"

\* one call _get_font(font_family, font_size)
Resolve(font_family, font_size) ==
  /\ \/ Cardinality(DOMAIN fonts_cache) < MaxCached
     \/ CacheKey(font_family, font_size) \in DOMAIN fonts_cache
  /\ ReceiveFont(font_family, font_size,
                 GetFont(fontEnv, fonts_cache, font_family, font_size))
  /\ UNCHANGED <<fontEnv, fileImage, results, text_settings, log, round>>

FontNext == \E font_family \in Families, font_size \in FontSizes : Resolve(font_family, font_size)

\* sessions of direct font lookups
FontSpec == Init /\ [][FontNext]_vars

(***************************************************************************)
(* Properties of the region compositor, the page compositor and the        *)
(* preview entry point.                                                    *)
(***************************************************************************)
\* C1: a region whose replacement text is empty or whitespace-only is never
\* erased, through the page compositor and through _process_text_region as
\* preview_settings calls it: no erase is issued on the rectangle of a bubble
\* whose text is blank.
BlankTextNeverErased ==
  \A k \in 1..Len(log) :
    log[k].op = "erase" =>
      \A i \in 1..Len(results) :
        results[i].bbox = log[k].bbox => Strip(results[i].translated_text) # <<>>

\* C2: a region narrower or lower than 10 pixels is neither erased nor drawn
\* and raises nothing, whatever its text and the style: the region compositor
\* hands back the context it was given, no erase of a page call is on such a
\* rectangle, and a page of such regions only is returned as it was opened.
SmallRegionSkipped ==
  entry \in {"page", "again"} =>
    /\ \A k \in 1..Len(log) :
         log[k].op = "erase" =>
           /\ log[k].bbox[3] - log[k].bbox[1] >= 10
           /\ log[k].bbox[4] - log[k].bbox[2] >= 10
    /\ \A i \in 1..Len(results) :
         (results[i].bbox[3] - results[i].bbox[1] < 10
            \/ results[i].bbox[4] - results[i].bbox[2] < 10) =>
           ProcessTextRegion(fontEnv, NewCtx(ConvertRGB(OpenImage).px, fonts_cache),
                             results[i], MergeSettings(text_settings))
             = NewCtx(ConvertRGB(OpenImage).px, fonts_cache)
    /\ (/\ results # <<>>
        /\ \A i \in 1..Len(results) :
             \/ results[i].bbox[3] - results[i].bbox[1] < 10
             \/ results[i].bbox[4] - results[i].bbox[2] < 10) =>
         out = AsArray(ConvertRGB(OpenImage))

\* a page call met a too narrow region with text to draw, and a region it
\* painted after it
SmallRegionComposited ==
  /\ entry = "page"
  /\ Len(results) = 2
  /\ results[1].bbox = RectS
  /\ Strip(results[1].translated_text) # <<>>
  /\ Strip(results[2].translated_text) # <<>>
  /\ out.kind = "array"
  /\ log # <<>>

\* C3: an exception raised while one region is solved, wrapped or drawn is
\* caught for that region: the page call still returns a raster, never an
\* exception (which its caller turns into None).
PageAlwaysReturnsRaster == entry \in {"page", "again"} => out.kind = "array"

\* C4: a page call repeated on the same image, region list and style returns
\* what the call before it returned, whatever the calls before left in the
\* font cache.
RepeatedCallIdentical == [][entry' = "again" => out' = out]_vars

\* a page call that painted was repeated, in a round that started with the
\* fonts of an earlier round in the cache
RepeatedCallMade ==
  /\ entry = "again"
  /\ round = 2
  /\ out.kind = "array"
  /\ \E k \in 1..Len(log) : log[k].op = "text"

\* C5: after any sequence of page calls and edits of the texts, what the last
\* call returned is what one call of a fresh compositor returns for the file
\* and the last texts.
LastCallEqualsSingleCall ==
  entry \in {"page", "again"} =>
    out = InpaintAndReplaceText(fontEnv, EmptyCache, Decoded(fileImage), results,
                                text_settings).ret

\* a page was composited, a text edited, and the page composited again with
\* something to paint
CalledAfterEdit ==
  /\ round = 2
  /\ entry \in {"page", "again"}
  /\ out.kind = "array"
  /\ \E k \in 1..Len(log) : log[k].op = "erase"

\* C6: for the adjacent rectangles A and B (A's x2 is B's x1) and a style
\* without stroke, the page composite of [A, B] is the page composite of
\* [B, A].
AdjacentOrderIrrelevant ==
  (/\ entry \in {"page", "again"}
   /\ BBoxes(results) = <<RectA, RectB>>
   /\ MergeSettings(text_settings).stroke_width = 0) =>
    out = InpaintAndReplaceText(fontEnv, fonts_cache, OpenImage,
                                <<results[2], results[1]>>, text_settings).ret

\* C7: without stroke, the page composite of one region (x1, y1, x2, y2)
\* differs from the converted base image in no pixel outside columns
\* x1..x2-1 and rows y1..y2-1.
NoChangeOutsideRegion ==
  (/\ entry \in {"page", "again"}
   /\ out.kind = "array"
   /\ Len(results) = 1
   /\ MergeSettings(text_settings).stroke_width = 0) =>
    \A p \in Pixels :
      ~(/\ results[1].bbox[1] <= p[1] /\ p[1] < results[1].bbox[3]
        /\ results[1].bbox[2] <= p[2] /\ p[2] < results[1].bbox[4]) =>
        out.px[p] = ConvertRGB(OpenImage).px[p]

\* C8: for an empty region list the page compositor returns a raster whose
\* pixels are those of the image at image_path.
EmptyListReturnsBase ==
  (entry \in {"page", "again"} /\ results = <<>>) =>
    out.kind = "array" /\ out.px = Decoded(fileImage).px

\* a page call was made with an empty list, on a file that is not RGB
EmptyListComposited ==
  /\ entry = "page"
  /\ results = <<>>
  /\ Decoded(fileImage).mode # "RGB"

\* C9: every raster the page compositor returns is RGB, whether the region
\* list is empty, holds blank texts only, or holds regions that are painted.
PageOutputIsRGB ==
  (entry \in {"page", "again"} /\ out.kind = "array") => out.mode = "RGB"

\* C10: with auto_font_size off, every region is wrapped and drawn at the
\* font_size of the style, with the font _get_font gives for that size, and
\* the solver is not run.
ManualSizeUsed ==
  (entry \in {"page", "again"} /\ ~MergeSettings(text_settings).auto_font_size) =>
    \A k \in 1..Len(log) :
      log[k].op = "font" =>
        /\ log[k].size = MergeSettings(text_settings).font_size
        /\ ~log[k].solved
        /\ log[k].font = GetFont(fontEnv, EmptyCache,
                                 MergeSettings(text_settings).font_family,
                                 MergeSettings(text_settings).font_size).font
        /\ k < Len(log) /\ log[k + 1].op = "text" /\ log[k + 1].font = log[k].font

\* a page call drew a region at a fixed size below the solver's smallest
ManualSizeRendered ==
  /\ entry = "page"
  /\ text_settings = ManualSettings
  /\ ManualSettings.font_size < MinFontSize
  /\ \E k \in 1..Len(log) : log[k].op = "font" /\ log[k].font.kind = "truetype"

\* C11 as stated: with auto_font_size on, for every rectangle of width and
\* height at least 10 the solver returns s with
\* 8 <= s <= min(width / 2, height / 2, 48).
SolvedSizeInRange ==
  (/\ out.kind = "size"
   /\ MergeSettings(text_settings).auto_font_size
   /\ out.width >= 10 /\ out.height >= 10) =>
    /\ out.ret.exc = "none"
    /\ 8 <= out.ret.size
    /\ out.ret.size <= Min2(Min2(out.width \div 2, out.height \div 2), 48)

\* C11 as amended: the solver returns s >= 8; s is at most
\* min(width / 2, height / 2, 48) when that is at least 8, and s is 8 when it
\* is below 8 (a rectangle with a side under 16).
SolvedSizeInRangeOrFloor ==
  (/\ out.kind = "size"
   /\ MergeSettings(text_settings).auto_font_size
   /\ out.width >= 10 /\ out.height >= 10) =>
    /\ out.ret.exc = "none"
    /\ 8 <= out.ret.size
    /\ IF Min2(Min2(out.width \div 2, out.height \div 2), 48) >= 8
         THEN out.ret.size <= Min2(Min2(out.width \div 2, out.height \div 2), 48)
         ELSE out.ret.size = 8

\* the solver was asked, with auto_font_size on, for a rectangle where it
\* tried several sizes and answered with one above the smallest
SolvedAboveFloor ==
  /\ out.kind = "size"
  /\ MergeSettings(text_settings).auto_font_size
  /\ Len(out.ret.tried) > 2
  /\ out.ret.size > 8
  /\ out.ret.size < Min2(Min2(out.width \div 2, out.height \div 2), 48)

\* C12: with auto_font_size on, when the wrapped block fits
\* (width <= rectW - 2p and height <= rectH - 2p) at some size of 8..ceiling,
\* it fits at the size the solver returns; when it fits at none, the solver
\* returns 8.
SolvedSizeFits ==
  (out.kind = "size" /\ MergeSettings(text_settings).auto_font_size) =>
    LET st == MergeSettings(text_settings)
        w == out.width - st.padding * 2
        h == out.height - st.padding * 2
        FontAt(s) == GetFont(fontEnv, EmptyCache, st.font_family, s).font
        Block(s) == GetTextBBox(WrapText(out.text, FontAt(s), w), FontAt(s))
        Fits(s) == Block(s)[3] <= w /\ Block(s)[4] <= h
        range == 8..Min2(Min2(out.width \div 2, out.height \div 2), 48)
    IN /\ (\E s \in range : Fits(s)) => Fits(out.ret.size)
       /\ (\A s \in range : ~Fits(s)) => out.ret.size = 8

\* the solver accepted some sizes and stopped at one that did not fit
SolverStoppedAtMisfit ==
  /\ out.kind = "size"
  /\ MergeSettings(text_settings).auto_font_size
  /\ Len(out.ret.tried) >= 2
  /\ out.ret.tried[Len(out.ret.tried)] > out.ret.size
  /\ Len(Split(out.text)) > 1

\* C13: no line of the wrapped text is measured wider than max_width, except
\* a line that is a single word.
WrappedLinesFit ==
  out.kind = "wrap" =>
    \A i \in 1..Len(IF out.ret = <<>> THEN <<>> ELSE SplitLines(out.ret)) :
      LET line == SplitLines(out.ret)[i]
          bbox == FontGetBBox(out.font, line)
      IN \/ bbox[3] - bbox[1] <= out.max_width
         \/ Len(Split(line)) = 1 /\ FontGetBBox(out.font, Split(line)[1])[3]
                                      - FontGetBBox(out.font, Split(line)[1])[1]
                                      > out.max_width

\* a text of several words was wrapped into several lines, one of them of
\* more than one word and one a single word wider than max_width
WrappedWithOversizeWord ==
  /\ out.kind = "wrap"
  /\ Len(out.lines) >= 2
  /\ \E i \in 1..Len(out.lines) : Len(Split(out.lines[i])) >= 2
  /\ \E i \in 1..Len(out.lines) :
       FontGetBBox(out.font, out.lines[i])[3] - FontGetBBox(out.font, out.lines[i])[1]
         > out.max_width

\* C14: the empty string wraps to the empty string, with no line, for every
\* font and every max_width > 0.
EmptyTextWrapsToEmpty ==
  (out.kind = "wrap" /\ out.text = <<>> /\ out.max_width > 0) =>
    out.ret = <<>> /\ out.lines = <<>>

\* the empty string was wrapped at a positive width
EmptyTextWrapped == out.kind = "wrap" /\ out.text = <<>> /\ out.max_width > 0

\* C15: the words of the wrapped text are the words of the text, in order,
\* for every max_width, zero and negative included.
WrapKeepsWords == out.kind = "wrap" => Split(out.ret) = Split(out.text)

\* a text of several words was wrapped at a width that is not positive
WrappedAtNoWidth ==
  /\ out.kind = "wrap"
  /\ out.max_width <= 0
  /\ Len(Split(out.text)) >= 3
  /\ Len(out.lines) >= 3

\* C16 as stated: for every rectangle, block and padding and each of the
\* alignments left, center and right, the draw origin (x, y) satisfies
\* x1 + padding <= x <= x2 - blockWidth - padding and
\* y1 + padding <= y <= y2 - blockHeight - padding.
OriginInsideBounds ==
  (out.kind = "position" /\ MergeSettings(text_settings).alignment \in PillowAligns) =>
    LET p == MergeSettings(text_settings).padding
        block == GetTextBBox(out.text, out.font)
    IN /\ out.bbox[1] + p <= out.ret[1]
       /\ out.ret[1] <= out.bbox[3] - block[3] - p
       /\ out.bbox[2] + p <= out.ret[2]
       /\ out.ret[2] <= out.bbox[4] - block[4] - p

\* C16 as amended: the draw origin is never before x1 + padding nor above
\* y1 + padding; it is at most x2 - blockWidth - padding when the block is no
\* wider than the rectangle less the paddings, and exactly x1 + padding when
\* it is wider; likewise for y and the block height.
OriginClampedNearFirst ==
  (out.kind = "position" /\ MergeSettings(text_settings).alignment \in PillowAligns) =>
    LET p == MergeSettings(text_settings).padding
        block == GetTextBBox(out.text, out.font)
    IN /\ out.bbox[1] + p <= out.ret[1]
       /\ out.bbox[2] + p <= out.ret[2]
       /\ IF block[3] <= (out.bbox[3] - out.bbox[1]) - 2 * p
            THEN out.ret[1] <= out.bbox[3] - block[3] - p
            ELSE out.ret[1] = out.bbox[1] + p
       /\ IF block[4] <= (out.bbox[4] - out.bbox[2]) - 2 * p
            THEN out.ret[2] <= out.bbox[4] - block[4] - p
            ELSE out.ret[2] = out.bbox[2] + p

\* a block was positioned that is wider than its rectangle less the paddings
\* but not higher
OversizeBlockPositioned ==
  /\ out.kind = "position"
  /\ MergeSettings(text_settings).alignment \in PillowAligns
  /\ GetTextBBox(out.text, out.font)[3]
       > (out.bbox[3] - out.bbox[1]) - 2 * MergeSettings(text_settings).padding
  /\ GetTextBBox(out.text, out.font)[4]
       < (out.bbox[4] - out.bbox[2]) - 2 * MergeSettings(text_settings).padding
  /\ out.ret[2] > out.bbox[2] + MergeSettings(text_settings).padding

\* C17: with transparency < 1.0 the erase blends the background colour into
\* the pixels of the rectangle with alpha = round(255 * transparency); red at
\* 0.5 over pure blue gives the blend at that rounded alpha.
ErasedWithRoundedAlpha ==
  (/\ out.kind = "erase"
   /\ MergeSettings(text_settings).transparency.num
        < MergeSettings(text_settings).transparency.den) =>
    LET t == MergeSettings(text_settings).transparency
        bg == MergeSettings(text_settings).bg_color
        alpha == (2 * 255 * t.num + t.den) \div (2 * t.den)
    IN \A p \in Pixels :
         (/\ out.bbox[1] <= p[1] /\ p[1] < out.bbox[3]
          /\ out.bbox[2] <= p[2] /\ p[2] < out.bbox[4]) =>
           out.ret[p] = <<BlendChannel(bg[1], out.before[p][1], alpha),
                          BlendChannel(bg[2], out.before[p][2], alpha),
                          BlendChannel(bg[3], out.before[p][3], alpha)>>

\* C18: a font lookup never raises, for every family and every integer size,
\* zero and negative included: it returns a handle, the default font when
\* the family cannot be loaded.
ResolveNeverRaises == out.kind = "font" => out.ret.exc = "none"

\* C19: the font cache is memoized by (family, size) and append-only: a
\* lookup leaves every stored entry as it was, a lookup of a stored pair
\* returns the stored handle without probing and changes nothing, a lookup
\* of a new pair that succeeds adds exactly its entry, and distinct pairs
\* have distinct keys.
CacheMemoized ==
  [][/\ \A k \in DOMAIN fonts_cache :
          k \in DOMAIN fonts_cache' /\ fonts_cache'[k] = fonts_cache[k]
     /\ out'.kind = "font" =>
          IF CacheKey(out'.family, out'.size) \in DOMAIN fonts_cache
            THEN /\ out'.ret.exc = "none"
                 /\ out'.ret.font = fonts_cache[CacheKey(out'.family, out'.size)]
                 /\ ~out'.ret.probed
                 /\ fonts_cache' = fonts_cache
            ELSE /\ out'.ret.probed
                 /\ out'.ret.exc = "none" =>
                      /\ DOMAIN fonts_cache'
                           = DOMAIN fonts_cache \cup {CacheKey(out'.family, out'.size)}
                      /\ fonts_cache'[CacheKey(out'.family, out'.size)] = out'.ret.font
     /\ \A f1 \in Families, f2 \in Families, s1 \in FontSizes, s2 \in FontSizes :
          CacheKey(f1, s1) = CacheKey(f2, s2) => f1 = f2 /\ s1 = s2
    ]_vars

\* a pair was looked up again with other pairs in the cache
ResolvedFromCache ==
  /\ out.kind = "font"
  /\ ~out.ret.probed
  /\ Cardinality(DOMAIN fonts_cache) >= 2
  /\ \E k \in DOMAIN fonts_cache : fonts_cache[k] # out.ret.font

BlockMeasureIsMaxAndSum ==
  out.kind = "bbox" =>
    LET lines == SplitLines(out.text)
        w[i \in 1..Len(lines)] ==
          FontGetBBox(out.font, lines[i])[3] - FontGetBBox(out.font, lines[i])[1]
        h[i \in 1..Len(lines)] ==
          FontGetBBox(out.font, lines[i])[4] - FontGetBBox(out.font, lines[i])[2]
        sum[n \in 0..Len(lines)] == IF n = 0 THEN 0 ELSE sum[n - 1] + h[n]
    IN /\ out.ret[1] = 0 /\ out.ret[2] = 0
       /\ \A i \in 1..Len(lines) : w[i] <= out.ret[3]
       /\ \E i \in 1..Len(lines) : w[i] = out.ret[3]
       /\ out.ret[4] = sum[Len(lines)]
       /\ out.text = <<>> => out.ret[3] = 0 /\ out.ret[4] = 0

\* a block of three lines of different widths has been measured
BlockOfLinesMeasured ==
  /\ out.kind = "bbox"
  /\ Len(SplitLines(out.text)) = 3
  /\ out.ret[3] = 4 * Advance(out.font)
  /\ out.ret[4] > out.font.size

WrapIsGreedy ==
  out.kind = "wrap" =>
    LET Width(s) == FontGetBBox(out.font, s)[3] - FontGetBBox(out.font, s)[1]
        lines == out.lines
    IN /\ \A i \in 1..(Len(lines) - 1) :
            Width(lines[i] \o <<" ">> \o Head(Split(lines[i + 1]))) > out.max_width
       /\ \A i \in 1..Len(lines) :
            \A k \in 1..Len(Split(lines[i])) :
              Width(Split(lines[i])[k]) > out.max_width => Len(Split(lines[i])) = 1

\* a text was wrapped into a line of two words that fills max_width exactly,
\* followed by a word wider than max_width
WrappedToExactFit ==
  /\ out.kind = "wrap"
  /\ Len(out.lines) = 2
  /\ Len(Split(out.lines[1])) = 2
  /\ Advance(out.font) * Len(out.lines[1]) = out.max_width
  /\ Advance(out.font) * Len(out.lines[2]) > out.max_width

\* C24: when the block is no wider than the rectangle less the paddings, the
\* x of the draw origin is x1 + padding for 'left', x2 - blockWidth - padding
\* for 'right', x1 + (rectW - blockWidth) // 2 for 'center', and
\* x1 + padding for any other alignment value.
OriginFollowsAlignment ==
  out.kind = "position" =>
    LET st == MergeSettings(text_settings)
        x1 == out.bbox[1]
        x2 == out.bbox[3]
        bw == GetTextBBox(out.text, out.font)[3]
    IN bw <= (x2 - x1) - 2 * st.padding =>
         out.ret[1] = CASE st.alignment = "left" -> x1 + st.padding
                        [] st.alignment = "right" -> x2 - bw - st.padding
                        [] st.alignment = "center" -> x1 + ((x2 - x1) - bw) \div 2
                        [] OTHER -> x1 + st.padding

\* a block that fits was centred at an x that is neither the left nor the
\* right position
FittingBlockCentred ==
  /\ out.kind = "position"
  /\ MergeSettings(text_settings).alignment = "center"
  /\ GetTextBBox(out.text, out.font)[3] > 0
  /\ GetTextBBox(out.text, out.font)[3]
       <= (out.bbox[3] - out.bbox[1]) - 2 * MergeSettings(text_settings).padding
  /\ out.ret[1] > out.bbox[1] + MergeSettings(text_settings).padding
  /\ out.ret[1] < out.bbox[3] - GetTextBBox(out.text, out.font)[3]
                    - MergeSettings(text_settings).padding

\* C25: a render that returns has issued, for a stroke width s > 0, exactly
\* (2s+1)^2 - 1 draws in the stroke colour, one at each offset (dx, dy) of
\* [-s, s]^2 other than (0, 0), and then one draw at the offset (0, 0) in the
\* font colour, which is the last; for s = 0 exactly one draw, in the font
\* colour.
StrokeDrawsThenFill ==
  (out.kind = "insert" /\ out.exc = "none" /\ Strip(out.text) # <<>>) =>
    LET st == MergeSettings(text_settings)
        s == st.stroke_width
        draws == SelectSeq(log, LAMBDA e : e.op = "text")
        n == Len(draws)
        xy == draws[n].xy
        offsets == {d \in (-s..s) \X (-s..s) : d # <<0, 0>>}
    IN /\ n = (2 * s + 1) * (2 * s + 1)
       /\ draws[n].fill = st.font_color
       /\ \A i \in 1..(n - 1) : draws[i].fill = st.stroke_color
       /\ {<<draws[i].xy[1] - xy[1], draws[i].xy[2] - xy[2]>> : i \in 1..(n - 1)} = offsets
       /\ \A i \in 1..n : draws[i].text = draws[n].text /\ draws[i].font = draws[n].font

\* a text has been rendered with a stroke of width 2
StrokeOfTwoRendered ==
  /\ out.kind = "insert" /\ out.exc = "none"
  /\ MergeSettings(text_settings).stroke_width = 2
  /\ Len(log) > 24

\* C26: the erase at transparency 1.0 leaves every pixel of the rectangle
\* equal to bg_color, whatever it was; the erase at transparency 0.0 leaves
\* every pixel of the image as it was.
EraseAtRangeEnds ==
  (out.kind = "erase_at" /\ out.exc = "none") =>
    /\ out.transparency.num = out.transparency.den =>
         \A p \in Pixels :
           (/\ out.bbox[1] <= p[1] /\ p[1] < out.bbox[3]
            /\ out.bbox[2] <= p[2] /\ p[2] < out.bbox[4]) =>
             out.ret[p] = MergeSettings(text_settings).bg_color
    /\ out.transparency.num = 0 => out.ret = out.before

\* a rectangle holding pixels that differ from a red bg_color has been erased
\* at transparency 0.0
ErasedAtZero ==
  /\ out.kind = "erase_at" /\ out.exc = "none"
  /\ out.transparency.num = 0
  /\ MergeSettings(text_settings).bg_color = <<255, 0, 0>>
  /\ \E p \in Pixels : /\ out.bbox[1] <= p[1] /\ p[1] < out.bbox[3]
                       /\ out.bbox[2] <= p[2] /\ p[2] < out.bbox[4]
                       /\ out.before[p] # <<255, 0, 0>>

\* C27: in a page composite that returns, the regions are processed one
\* after the other in list order: the drawing calls are those of the first
\* processed region, then those of the second, and so on, each region's calls
\* being one erase followed by its text calls; the image of a list of two is
\* the second region processed on the image of the first alone; and with an
\* opaque fill the rectangle of the later region shows that region only.
RegionsInListOrder ==
  (entry = "pipeline" /\ out.final_image.kind = "array") =>
    LET st == MergeSettings(text_settings)
        base == ConvertRGB(OpenImage).px
        processed == SelectSeq(results,
                               LAMBDA r : /\ Strip(r.translated_text) # <<>>
                                          /\ r.bbox[3] - r.bbox[1] >= 10
                                          /\ r.bbox[4] - r.bbox[2] >= 10)
        n == Len(processed)
        draws == SelectSeq(log, LAMBDA e : e.op # "translate")
        RegionLog(r) == ProcessTextRegion(fontEnv, NewCtx(base, fonts_cache), r, st).log
        upto[k \in 0..n] == IF k = 0 THEN <<>> ELSE upto[k - 1] \o RegionLog(processed[k])
        Alone(r) == InpaintAndReplaceText(fontEnv, fonts_cache, OpenImage, <<r>>,
                                          text_settings).ret.px
    IN /\ draws = upto[n]
       /\ \A k \in 1..n :
            /\ RegionLog(processed[k])[1].op = "erase"
            /\ RegionLog(processed[k])[1].bbox = processed[k].bbox
            /\ \A j \in 2..Len(RegionLog(processed[k])) :
                 RegionLog(processed[k])[j].op # "erase"
       /\ n = 2 =>
            /\ out.final_image.px
                 = ProcessTextRegion(fontEnv, NewCtx(Alone(processed[1]), fonts_cache),
                                     processed[2], st).px
            /\ st.transparency.num = st.transparency.den =>
                 \A p \in Pixels :
                   InRectangle(p, processed[2].bbox) =>
                     out.final_image.px[p] = Alone(processed[2])[p]

\* two overlapping regions with text were composited with an opaque fill, and
\* a pixel the first region had drawn in the overlap shows the second region
OverlappingRegionsComposited ==
  /\ entry = "pipeline" /\ out.final_image.kind = "array"
  /\ BBoxes(results) = <<RectO, RectA>>
  /\ Len(SelectSeq(log, LAMBDA e : e.op = "erase")) = 2
  /\ MergeSettings(text_settings).transparency.num = 1
  /\ MergeSettings(text_settings).transparency.den = 1
  /\ \E p \in Pixels :
       /\ InRectangle(p, RectO) /\ InRectangle(p, RectA)
       /\ InpaintAndReplaceText(fontEnv, fonts_cache, OpenImage, <<results[1]>>,
                                text_settings).ret.px[p] # out.final_image.px[p]

\* C30: after a run of the pipeline, a bubble whose recognized text is empty
\* has an empty replacement text and no translator call was made for it; the
\* page composite, when it returned an image, made the drawing calls of the
\* other bubbles only and returned the image it gives for the list without
\* the empty bubbles (the converted page when none is left); and when the
\* source language is the target language every replacement text is the
\* recognized text.
EmptyBubbleLeftAlone ==
  entry = "pipeline" =>
    LET kept == SelectSeq(results, LAMBDA r : r.original_text # <<>>)
        others == InpaintAndReplaceText(fontEnv, fonts_cache, OpenImage, kept, text_settings)
    IN /\ \A i \in 1..Len(results) :
            results[i].original_text = <<>> =>
              /\ results[i].translated_text = <<>>
              /\ \A k \in 1..Len(log) : log[k].op = "translate" => log[k].bubble # i
       /\ out.final_image.kind = "array" =>
            /\ \A i \in 1..Len(results), k \in 1..Len(log) :
                 (results[i].original_text = <<>> /\ log[k].op = "erase")
                   => log[k].bbox # results[i].bbox
            /\ SelectSeq(log, LAMBDA e : e.op # "translate") = others.log
            /\ out.final_image.px
                 = IF kept = <<>> THEN ConvertRGB(OpenImage).px ELSE others.ret.px
       /\ \A i \in 1..Len(results) :
            results[i].source_language = results[i].target_language
              => results[i].translated_text = results[i].original_text

\* a page of two bubbles went through the pipeline: nothing was recognized in
\* the first, the text of the second was sent to the translator and its
\* rectangle erased
EmptyBubbleBesideTranslated ==
  /\ entry = "pipeline" /\ out.final_image.kind = "array"
  /\ Len(results) = 2
  /\ results[1].original_text = <<>>
  /\ results[2].original_text # <<>>
  /\ \E k \in 1..Len(log) : log[k].op = "translate" /\ log[k].bubble = 2
  /\ \E k \in 1..Len(log) : log[k].op = "erase" /\ log[k].bbox = results[2].bbox
  /\ out.final_image.px # ConvertRGB(OpenImage).px

\* C28: with auto_font_size on, the block that is drawn is the one the solver
\* measured at the size it returned: the font of the draws is the cache entry
\* of (font_family, returned size), the text drawn is the text wrapped with
\* that font at rectW - 2 * padding, and when the returned size passes the
\* fit test the drawn text measures at most
\* (rectW - 2 * padding, rectH - 2 * padding).
RenderedBlockIsSolvedBlock ==
  (/\ out.kind = "insert" /\ out.exc = "none" /\ Strip(out.text) # <<>>
   /\ MergeSettings(text_settings).auto_font_size) =>
    LET st == MergeSettings(text_settings)
        width == out.bbox[3] - out.bbox[1]
        height == out.bbox[4] - out.bbox[2]
        w == width - st.padding * 2
        h == height - st.padding * 2
        s == CalculateOptimalFontSize(fontEnv, EmptyCache, out.text, width, height, st).size
        handle == fonts_cache[CacheKey(st.font_family, s)]
        Block(f) == GetTextBBox(WrapText(out.text, f, w), f)
        draws == SelectSeq(log, LAMBDA e : e.op = "text")
    IN /\ CacheKey(st.font_family, s) \in DOMAIN fonts_cache
       /\ Len(draws) >= 1
       /\ \A i \in 1..Len(draws) :
            /\ draws[i].font = handle
            /\ draws[i].text = WrapText(out.text, handle, w)
            /\ (Block(handle)[3] <= w /\ Block(handle)[4] <= h) =>
                 /\ GetTextBBox(draws[i].text, draws[i].font)[3] <= w
                 /\ GetTextBBox(draws[i].text, draws[i].font)[4] <= h

\* a text was rendered in two lines at a size above the smallest, which the
\* solver had accepted
SolvedBlockRendered ==
  /\ out.kind = "insert" /\ out.exc = "none"
  /\ MergeSettings(text_settings).auto_font_size
  /\ Len(log) >= 2
  /\ log[1].op = "font" /\ log[1].solved /\ log[1].size > 8
  /\ log[Len(log)].op = "text"
  /\ Len(SplitLines(log[Len(log)].text)) = 2

\* C29: the draw in the font colour of a block of several lines is given the
\* line alignment of the style whether or not a stroke is drawn: with
\* stroke_width > 0 as with stroke_width = 0, the align of that draw is
\* settings['alignment'].
FillDrawAlignedAsStyle ==
  (/\ out.kind = "insert" /\ out.exc = "none" /\ Strip(out.text) # <<>>
   /\ MergeSettings(text_settings).alignment \in {"left", "center", "right"}
   /\ Len(log) >= 1
   /\ log[Len(log)].op = "text"
   /\ Len(SplitLines(log[Len(log)].text)) > 1) =>
    log[Len(log)].align = MergeSettings(text_settings).alignment

====
